---- MODULE Spec2Model ----
(***************************************************************************)
(* Fraud-detection support library (features.py, preprocessing.py,         *)
(* metrics.py, models.py): the feature registry, the preprocessing         *)
(* builder, the evaluation metrics and the model factory, as state         *)
(* machines driven by a caller.                                            *)
(*                                                                         *)
(* Numbers: a probability or threshold is an integer count of hundredths   *)
(* (35 is 0.35); a metric value is an exact fraction [n |-> , d |-> ] or   *)
(* NaN.  Floating-point rounding is not modelled.                          *)
(***************************************************************************)
EXTENDS Integers, Sequences, FiniteSets, TLC

VARIABLES
    COLUNAS_RASTREIO,      \* contents of the module-level list object (features.py:21)
    FEATURES_CATEGORICAS,  \* contents of the module-level list object (features.py:35)
    FEATURES_NUMERICAS,    \* contents of the module-level list object (features.py:46)
    alvoList,              \* the list object built by the latest get_features() for "alvo"
    namesList,             \* the list object built by the latest get_feature_names()
    held,                  \* the list objects the caller holds a reference to
    mutations,             \* how many times the caller has modified a list it holds
    regCall,               \* the latest registry operation and its outcome
    y_true,                \* metrics.py: the labels a metrics call is given
    y_proba,               \* the probabilities it is given (hundredths)
    threshold,             \* the decision threshold it is given (hundredths)
    zero_division,         \* the zero_division argument
    proba_by_model,        \* tradeoff_table's mapping, as (modelo, y_proba) items in dict order
    cv_summary,            \* consolidate_cv_results' first argument (the caller's object)
    model_name,            \* consolidate_cv_results' second argument
    metCall,               \* the metrics call made on these inputs and its outcome
    preprocessor,          \* preprocessing.py: the ColumnTransformer the caller works with
    preCall,               \* the latest preprocessing operation and its outcome
    pipelines,             \* models.py: the Pipeline objects built so far, by identity
    edits,                 \* how many times the caller has modified a pipeline's column list
    modCall                \* the latest model-factory operation and its outcome

regVars == << COLUNAS_RASTREIO, FEATURES_CATEGORICAS, FEATURES_NUMERICAS, alvoList,
              namesList, held, mutations, regCall >>

metVars == << y_true, y_proba, threshold, zero_division, proba_by_model, cv_summary,
              model_name, metCall >>

preVars == << preprocessor, preCall >>

modVars == << pipelines, edits, modCall >>

vars == << regVars, metVars, preVars, modVars >>

(***************************************************************************)
(* Generic helpers                                                         *)
(***************************************************************************)
Range(s) == { s[i] : i \in 1..Len(s) }

NoDuplicates(s) == \A i, j \in 1..Len(s) : i # j => s[i] # s[j]

\* The elements of s that are not in the set drop, in the order of s.
Without(s, drop) ==
    LET keep(x) == x \notin drop IN SelectSeq(s, keep)

(***************************************************************************)
(* features.py: the declared lists                                         *)
(***************************************************************************)
DeclaredRastreio == <<
    "id_transacao", "id_cartao", "ts_transacao", "data_transacao" >>
DeclaredCategoricas == <<
    "temp_faixa", "valor_transacao_faixa", "periodo_dia" >>
DeclaredNumericas == <<
    "hora_transacao", "dia_semana", "fim_de_semana", "tempo_vida_cartao_dias",
    "tempo_desde_ultima_transacao_min", "tempo_desde_ultima_transacao_horas",
    "uso_intervalo_curto", "qtd_transacoes_dia", "qtd_transacoes_24h",
    "uso_intenso_24h", "linha_repetida", "dispositivo_repetido",
    "qtd_linhas_distintas_dia", "qtd_dispositivos_distintos_dia", "idade_suspeita",
    "feriado_bin", "feriado_nao_mapeado", "sentido_ida", "clima_adverso",
    "cartao_qtd_transacoes", "cartao_dias_ativos", "cartao_media_transacoes_por_dia",
    "cartao_qtd_linhas_distintas", "cartao_qtd_dispositivos_distintos",
    "cartao_qtd_motoristas_distintos", "cartao_valor_transacao_mean",
    "cartao_valor_transacao_std", "cartao_pct_integracao", "cartao_pct_feriado",
    "cartao_pct_intervalo_curto", "valor_vs_media_cartao", "valor_zscore_cartao",
    "valor_outlier_cartao", "uso_acima_media_dia_cartao" >>

COLUNA_ALVO == "target_fraude"

\* Python compares str values by code point; the code points of every column
\* name and category value the model uses.
CodePoints(s) ==
    CASE s = "id_transacao" -> <<105, 100, 95, 116, 114, 97, 110, 115, 97, 99, 97, 111>>
      [] s = "id_cartao" -> <<105, 100, 95, 99, 97, 114, 116, 97, 111>>
      [] s = "ts_transacao" -> <<116, 115, 95, 116, 114, 97, 110, 115, 97, 99, 97, 111>>
      [] s = "data_transacao" ->
           <<100, 97, 116, 97, 95, 116, 114, 97, 110, 115, 97, 99, 97, 111>>
      [] s = "target_fraude" ->
           <<116, 97, 114, 103, 101, 116, 95, 102, 114, 97, 117, 100, 101>>
      [] s = "temp_faixa" -> <<116, 101, 109, 112, 95, 102, 97, 105, 120, 97>>
      [] s = "valor_transacao_faixa" ->
           <<118, 97, 108, 111, 114, 95, 116, 114, 97, 110, 115, 97, 99, 97, 111, 95,
             102, 97, 105, 120, 97>>
      [] s = "periodo_dia" -> <<112, 101, 114, 105, 111, 100, 111, 95, 100, 105, 97>>
      [] s = "hora_transacao" ->
           <<104, 111, 114, 97, 95, 116, 114, 97, 110, 115, 97, 99, 97, 111>>
      [] s = "dia_semana" -> <<100, 105, 97, 95, 115, 101, 109, 97, 110, 97>>
      [] s = "fim_de_semana" ->
           <<102, 105, 109, 95, 100, 101, 95, 115, 101, 109, 97, 110, 97>>
      [] s = "tempo_vida_cartao_dias" ->
           <<116, 101, 109, 112, 111, 95, 118, 105, 100, 97, 95, 99, 97, 114, 116, 97,
             111, 95, 100, 105, 97, 115>>
      [] s = "tempo_desde_ultima_transacao_min" ->
           <<116, 101, 109, 112, 111, 95, 100, 101, 115, 100, 101, 95, 117, 108, 116,
             105, 109, 97, 95, 116, 114, 97, 110, 115, 97, 99, 97, 111, 95, 109, 105,
             110>>
      [] s = "tempo_desde_ultima_transacao_horas" ->
           <<116, 101, 109, 112, 111, 95, 100, 101, 115, 100, 101, 95, 117, 108, 116,
             105, 109, 97, 95, 116, 114, 97, 110, 115, 97, 99, 97, 111, 95, 104, 111,
             114, 97, 115>>
      [] s = "uso_intervalo_curto" ->
           <<117, 115, 111, 95, 105, 110, 116, 101, 114, 118, 97, 108, 111, 95, 99,
             117, 114, 116, 111>>
      [] s = "qtd_transacoes_dia" ->
           <<113, 116, 100, 95, 116, 114, 97, 110, 115, 97, 99, 111, 101, 115, 95, 100,
             105, 97>>
      [] s = "qtd_transacoes_24h" ->
           <<113, 116, 100, 95, 116, 114, 97, 110, 115, 97, 99, 111, 101, 115, 95, 50,
             52, 104>>
      [] s = "uso_intenso_24h" ->
           <<117, 115, 111, 95, 105, 110, 116, 101, 110, 115, 111, 95, 50, 52, 104>>
      [] s = "linha_repetida" ->
           <<108, 105, 110, 104, 97, 95, 114, 101, 112, 101, 116, 105, 100, 97>>
      [] s = "dispositivo_repetido" ->
           <<100, 105, 115, 112, 111, 115, 105, 116, 105, 118, 111, 95, 114, 101, 112,
             101, 116, 105, 100, 111>>
      [] s = "qtd_linhas_distintas_dia" ->
           <<113, 116, 100, 95, 108, 105, 110, 104, 97, 115, 95, 100, 105, 115, 116,
             105, 110, 116, 97, 115, 95, 100, 105, 97>>
      [] s = "qtd_dispositivos_distintos_dia" ->
           <<113, 116, 100, 95, 100, 105, 115, 112, 111, 115, 105, 116, 105, 118, 111,
             115, 95, 100, 105, 115, 116, 105, 110, 116, 111, 115, 95, 100, 105, 97>>
      [] s = "idade_suspeita" ->
           <<105, 100, 97, 100, 101, 95, 115, 117, 115, 112, 101, 105, 116, 97>>
      [] s = "feriado_bin" -> <<102, 101, 114, 105, 97, 100, 111, 95, 98, 105, 110>>
      [] s = "feriado_nao_mapeado" ->
           <<102, 101, 114, 105, 97, 100, 111, 95, 110, 97, 111, 95, 109, 97, 112, 101,
             97, 100, 111>>
      [] s = "sentido_ida" -> <<115, 101, 110, 116, 105, 100, 111, 95, 105, 100, 97>>
      [] s = "clima_adverso" ->
           <<99, 108, 105, 109, 97, 95, 97, 100, 118, 101, 114, 115, 111>>
      [] s = "cartao_qtd_transacoes" ->
           <<99, 97, 114, 116, 97, 111, 95, 113, 116, 100, 95, 116, 114, 97, 110, 115,
             97, 99, 111, 101, 115>>
      [] s = "cartao_dias_ativos" ->
           <<99, 97, 114, 116, 97, 111, 95, 100, 105, 97, 115, 95, 97, 116, 105, 118,
             111, 115>>
      [] s = "cartao_media_transacoes_por_dia" ->
           <<99, 97, 114, 116, 97, 111, 95, 109, 101, 100, 105, 97, 95, 116, 114, 97,
             110, 115, 97, 99, 111, 101, 115, 95, 112, 111, 114, 95, 100, 105, 97>>
      [] s = "cartao_qtd_linhas_distintas" ->
           <<99, 97, 114, 116, 97, 111, 95, 113, 116, 100, 95, 108, 105, 110, 104, 97,
             115, 95, 100, 105, 115, 116, 105, 110, 116, 97, 115>>
      [] s = "cartao_qtd_dispositivos_distintos" ->
           <<99, 97, 114, 116, 97, 111, 95, 113, 116, 100, 95, 100, 105, 115, 112, 111,
             115, 105, 116, 105, 118, 111, 115, 95, 100, 105, 115, 116, 105, 110, 116,
             111, 115>>
      [] s = "cartao_qtd_motoristas_distintos" ->
           <<99, 97, 114, 116, 97, 111, 95, 113, 116, 100, 95, 109, 111, 116, 111, 114,
             105, 115, 116, 97, 115, 95, 100, 105, 115, 116, 105, 110, 116, 111, 115>>
      [] s = "cartao_valor_transacao_mean" ->
           <<99, 97, 114, 116, 97, 111, 95, 118, 97, 108, 111, 114, 95, 116, 114, 97,
             110, 115, 97, 99, 97, 111, 95, 109, 101, 97, 110>>
      [] s = "cartao_valor_transacao_std" ->
           <<99, 97, 114, 116, 97, 111, 95, 118, 97, 108, 111, 114, 95, 116, 114, 97,
             110, 115, 97, 99, 97, 111, 95, 115, 116, 100>>
      [] s = "cartao_pct_integracao" ->
           <<99, 97, 114, 116, 97, 111, 95, 112, 99, 116, 95, 105, 110, 116, 101, 103,
             114, 97, 99, 97, 111>>
      [] s = "cartao_pct_feriado" ->
           <<99, 97, 114, 116, 97, 111, 95, 112, 99, 116, 95, 102, 101, 114, 105, 97,
             100, 111>>
      [] s = "cartao_pct_intervalo_curto" ->
           <<99, 97, 114, 116, 97, 111, 95, 112, 99, 116, 95, 105, 110, 116, 101, 114,
             118, 97, 108, 111, 95, 99, 117, 114, 116, 111>>
      [] s = "valor_vs_media_cartao" ->
           <<118, 97, 108, 111, 114, 95, 118, 115, 95, 109, 101, 100, 105, 97, 95, 99,
             97, 114, 116, 97, 111>>
      [] s = "valor_zscore_cartao" ->
           <<118, 97, 108, 111, 114, 95, 122, 115, 99, 111, 114, 101, 95, 99, 97, 114,
             116, 97, 111>>
      [] s = "valor_outlier_cartao" ->
           <<118, 97, 108, 111, 114, 95, 111, 117, 116, 108, 105, 101, 114, 95, 99, 97,
             114, 116, 97, 111>>
      [] s = "uso_acima_media_dia_cartao" ->
           <<117, 115, 111, 95, 97, 99, 105, 109, 97, 95, 109, 101, 100, 105, 97, 95,
             100, 105, 97, 95, 99, 97, 114, 116, 97, 111>>
      [] s = "coluna_extra" -> <<99, 111, 108, 117, 110, 97, 95, 101, 120, 116, 114, 97>>
      [] s = "alta" -> <<97, 108, 116, 97>>
      [] s = "baixa" -> <<98, 97, 105, 120, 97>>


\* a < b for Python str values.
RECURSIVE SeqLess(_, _)
SeqLess(a, b) ==
    IF b = << >> THEN FALSE
    ELSE IF a = << >> THEN TRUE
    ELSE IF a[1] # b[1] THEN a[1] < b[1]
    ELSE SeqLess(Tail(a), Tail(b))

StrLess(a, b) == SeqLess(CodePoints(a), CodePoints(b))

\* sorted(S) for a set S of str values: ascending.
RECURSIVE sorted(_)
sorted(S) ==
    IF S = {} THEN << >>
    ELSE LET least == CHOOSE x \in S : \A y \in S \ {x} : StrLess(x, y)
         IN  << least >> \o sorted(S \ {least})

(***************************************************************************)
(* features.py: the registry functions, evaluated in the current state     *)
(***************************************************************************)
\* get_features(): "alvo" is a list built by the call; the other three values
\* are the module-level list objects themselves.
get_features ==
    [ rastreio    |-> COLUNAS_RASTREIO,
      alvo        |-> << COLUNA_ALVO >>,
      categoricas |-> FEATURES_CATEGORICAS,
      numericas   |-> FEATURES_NUMERICAS ]

\* The list objects a caller of get_features() obtains a reference to.
GetFeaturesRefs == { "COLUNAS_RASTREIO", "alvoList", "FEATURES_CATEGORICAS", "FEATURES_NUMERICAS" }

\* get_feature_names(): list + list builds a new list object.
get_feature_names == FEATURES_CATEGORICAS \o FEATURES_NUMERICAS

\* validate_feature_set with the set difference taken both ways (extra columns
\* reported as well).
validate_feature_set_exact(columns) ==
    LET expected == Range(get_feature_names)
        received == Range(columns)
        missing  == (expected \ received) \cup (received \ expected)
    IN  IF missing # {}
        THEN [ raised |-> TRUE, missing |-> sorted(missing) ]
        ELSE [ raised |-> FALSE, missing |-> << >> ]

\* validate_feature_set(columns): raises ValueError carrying sorted(missing)
\* when a feature is absent, returns None otherwise.
validate_feature_set(columns) ==
    LET expected == Range(get_feature_names)
        received == Range(columns)
        missing  == expected \ received
    IN  IF missing # {}
        THEN [ raised |-> TRUE, missing |-> sorted(missing) ]
        ELSE [ raised |-> FALSE, missing |-> << >> ]

(***************************************************************************)
(* The registry driven by a caller                                         *)
(***************************************************************************)
MaxMutations == 2

\* Features a caller's table may lack, and columns it may carry besides.
DropSample == { "valor_transacao_faixa", "hora_transacao", "cartao_dias_ativos" }
ExtraColumns ==
    { << >>, << "id_transacao", "target_fraude" >>, << "coluna_extra", "coluna_extra" >> }

ColumnInputs ==
    { Without(DeclaredCategoricas \o DeclaredNumericas, drop) \o extra :
        drop \in SUBSET DropSample, extra \in ExtraColumns }

\* Names a caller may append to a list it holds: one already a feature, one new.
AppendSample == { "periodo_dia", "coluna_extra" }

\* The state of the feature registry when the module has been imported.
RegistryLoaded ==
    /\ COLUNAS_RASTREIO = DeclaredRastreio
    /\ FEATURES_CATEGORICAS = DeclaredCategoricas
    /\ FEATURES_NUMERICAS = DeclaredNumericas
    /\ alvoList = << >>
    /\ namesList = << >>
    /\ held = {}
    /\ mutations = 0
    /\ regCall = [ op |-> "none" ]

\* No metrics call in progress.
MetricsIdle ==
    /\ y_true = << >>
    /\ y_proba = << >>
    /\ threshold = 0
    /\ zero_division = 0
    /\ proba_by_model = << >>
    /\ cv_summary = [ kind |-> "none" ]
    /\ model_name = ""
    /\ metCall = [ op |-> "none" ]

\* No preprocessor built.
PreprocessingIdle ==
    /\ preprocessor = [ built |-> FALSE ]
    /\ preCall = [ op |-> "none" ]

\* No model pipeline built.
ModelsIdle ==
    /\ pipelines = << >>
    /\ edits = 0
    /\ modCall = [ op |-> "none" ]

InitRegistry == RegistryLoaded /\ MetricsIdle /\ PreprocessingIdle /\ ModelsIdle

GetFeatures ==
    /\ regCall' = [ op |-> "get_features", ret |-> get_features ]
    /\ alvoList' = get_features.alvo
    /\ held' = held \cup GetFeaturesRefs
    /\ UNCHANGED << COLUNAS_RASTREIO, FEATURES_CATEGORICAS, FEATURES_NUMERICAS,
                    namesList, mutations >>

GetFeatureNames ==
    /\ regCall' = [ op |-> "get_feature_names", ret |-> get_feature_names ]
    /\ namesList' = get_feature_names
    /\ held' = held \cup { "namesList" }
    /\ UNCHANGED << COLUNAS_RASTREIO, FEATURES_CATEGORICAS, FEATURES_NUMERICAS,
                    alvoList, mutations >>

ValidateFeatureSet ==
    \E columns \in ColumnInputs :
        /\ regCall' = [ op |-> "validate_feature_set", columns |-> columns,
                        out |-> validate_feature_set(columns) ]
        /\ UNCHANGED << COLUNAS_RASTREIO, FEATURES_CATEGORICAS, FEATURES_NUMERICAS,
                        alvoList, namesList, held, mutations >>

\* list.append(x) / list.pop() on a list value.
Modified(list, how) ==
    IF how = "pop" THEN SubSeq(list, 1, Len(list) - 1) ELSE Append(list, how)

\* The caller modifies, in place, a list object it obtained from an earlier call.
CallerModifies ==
    \E ref \in held, how \in AppendSample \cup { "pop" } :
        /\ mutations < MaxMutations
        /\ mutations' = mutations + 1
        /\ regCall' = [ op |-> "caller_modifies", ref |-> ref ]
        /\ COLUNAS_RASTREIO' =
              IF ref = "COLUNAS_RASTREIO" THEN Modified(COLUNAS_RASTREIO, how)
              ELSE COLUNAS_RASTREIO
        /\ FEATURES_CATEGORICAS' =
              IF ref = "FEATURES_CATEGORICAS" THEN Modified(FEATURES_CATEGORICAS, how)
              ELSE FEATURES_CATEGORICAS
        /\ FEATURES_NUMERICAS' =
              IF ref = "FEATURES_NUMERICAS" THEN Modified(FEATURES_NUMERICAS, how)
              ELSE FEATURES_NUMERICAS
        /\ alvoList' = IF ref = "alvoList" THEN Modified(alvoList, how) ELSE alvoList
        /\ namesList' = IF ref = "namesList" THEN Modified(namesList, how) ELSE namesList
        /\ UNCHANGED held

NextRegistry ==
    \/ GetFeatures /\ UNCHANGED << metVars, preVars, modVars >>
    \/ GetFeatureNames /\ UNCHANGED << metVars, preVars, modVars >>
    \/ ValidateFeatureSet /\ UNCHANGED << metVars, preVars, modVars >>
    \/ CallerModifies /\ UNCHANGED << metVars, preVars, modVars >>

SpecRegistry == InitRegistry /\ [][NextRegistry]_vars

(***************************************************************************)
(* Claims about the registry (checked under SpecRegistry)                  *)
(***************************************************************************)
\* s is in strictly ascending str order.
StrictlyAscending(s) == \A i \in 1..(Len(s) - 1) : StrLess(s[i], s[i + 1])

\* C1: validate_feature_set(columns) returns normally exactly when columns holds
\* every name of the full feature set (the categorical list plus the numeric
\* list); names beyond those never make it fail; when it fails, the error lists
\* exactly the absent features (expected minus received), each once, in sorted
\* order.
C1_ValidateFeatureSetContract ==
    regCall.op = "validate_feature_set" =>
        LET received == Range(regCall.columns)
            full     == Range(FEATURES_CATEGORICAS) \cup Range(FEATURES_NUMERICAS)
            absent   == { f \in full : f \notin received }
            out      == regCall.out
        IN  /\ ~out.raised <=> (\A f \in full : f \in received)
            /\ out.raised =>
                  /\ Range(out.missing) = absent
                  /\ Len(out.missing) = Cardinality(absent)
                  /\ StrictlyAscending(out.missing)
            /\ ~out.raised => out.missing = << >>

\* A call that failed on a table carrying extra columns and lacking three
\* features, whose sorted order differs from their declared order.
C1_Witness ==
    /\ regCall.op = "validate_feature_set"
    /\ regCall.out.raised
    /\ regCall.out.missing = << "cartao_dias_ativos", "hora_transacao", "valor_transacao_faixa" >>
    /\ "coluna_extra" \in Range(regCall.columns)

\* C7: the registry calls are pure and hold no mutable state: get_features()
\* returns the same four lists and get_feature_names() the same list on every
\* call, and validate_feature_set the same outcome for the same argument, also
\* after a caller has modified a list obtained from an earlier call.
C7_RegistryCallsArePure ==
    /\ regCall.op = "get_features" =>
          regCall.ret = [ rastreio    |-> DeclaredRastreio,
                          alvo        |-> << COLUNA_ALVO >>,
                          categoricas |-> DeclaredCategoricas,
                          numericas   |-> DeclaredNumericas ]
    /\ regCall.op = "get_feature_names" =>
          regCall.ret = DeclaredCategoricas \o DeclaredNumericas
    /\ regCall.op = "validate_feature_set" =>
          regCall.out.raised =
              (Range(DeclaredCategoricas \o DeclaredNumericas) \ Range(regCall.columns) # {})

\* C9: get_feature_names() returns the categorical list followed by the numeric
\* list, its length is the sum of their lengths, and no name occurs twice in it.
C9_FeatureNamesConcatenation ==
    regCall.op = "get_feature_names" =>
        /\ regCall.ret = FEATURES_CATEGORICAS \o FEATURES_NUMERICAS
        /\ Len(regCall.ret) = Len(FEATURES_CATEGORICAS) + Len(FEATURES_NUMERICAS)
        /\ NoDuplicates(regCall.ret)

(***************************************************************************)
(* metrics.py: numbers                                                     *)
(***************************************************************************)
\* A float: the exact fraction n/d (d > 0), or not-a-number.
Frac(n, d) == [ n |-> n, d |-> d ]
NaN == [ n |-> 0, d |-> 0 ]
IsNaN(x) == x.d = 0

\* a + b for floats that are numbers.
FracAdd(a, b) == Frac(a.n * b.d + b.n * a.d, a.d * b.d)

\* a and b are the same number (a NaN equals nothing).
SameNumber(a, b) == ~IsNaN(a) /\ ~IsNaN(b) /\ a.n * b.d = b.n * a.d

\* The row numbers of a label or score vector.
Rows(v) == 1..Len(v)

(***************************************************************************)
(* metrics.py: the library's metric primitives, as the module calls them   *)
(***************************************************************************)
\* (y_proba > threshold).astype(int): a probability equal to the threshold is
\* left out of the positives.
binarize_strict(proba, thr) ==
    [ i \in Rows(proba) |-> IF proba[i] > thr THEN 1 ELSE 0 ]

\* (y_proba >= threshold).astype(int)
binarize(proba, thr) ==
    [ i \in Rows(proba) |-> IF proba[i] >= thr THEN 1 ELSE 0 ]

\* confusion_matrix(y_true, y_pred, labels=[0, 1]).ravel(): cell (t, p) counts
\* the rows with true label t and predicted label p; zeros for empty input.
confusion_matrix(truth, pred) ==
    LET cell(t, p) == Cardinality({ i \in Rows(truth) : truth[i] = t /\ pred[i] = p })
    IN  [ tn |-> cell(0, 0), fp |-> cell(0, 1), fn |-> cell(1, 0), tp |-> cell(1, 1) ]

\* The three sums precision, recall and F1 are built from (positive label 1).
tp_sum(truth, pred) == Cardinality({ i \in Rows(truth) : truth[i] = 1 /\ pred[i] = truth[i] })
pred_sum(pred) == Cardinality({ i \in Rows(pred) : pred[i] = 1 })
true_sum(truth) == Cardinality({ i \in Rows(truth) : truth[i] = 1 })

\* precision_score(y_true, y_pred, zero_division=zd)
precision_score(truth, pred, zd) ==
    IF pred_sum(pred) = 0 THEN Frac(zd, 1)
    ELSE Frac(tp_sum(truth, pred), pred_sum(pred))

\* recall_score(y_true, y_pred, zero_division=zd)
recall_score(truth, pred, zd) ==
    IF true_sum(truth) = 0 THEN Frac(zd, 1)
    ELSE Frac(tp_sum(truth, pred), true_sum(truth))

\* f1_score(y_true, y_pred, zero_division=zd)
f1_score(truth, pred, zd) ==
    IF true_sum(truth) + pred_sum(pred) = 0 THEN Frac(zd, 1)
    ELSE Frac(2 * tp_sum(truth, pred), true_sum(truth) + pred_sum(pred))

\* roc_auc_score(y_true, y_score) for labels of both classes: the share of
\* (positive, negative) row pairs ranked correctly, a tie counting one half.
roc_auc_score(truth, score) ==
    LET pairs == { <<i, j>> \in Rows(truth) \X Rows(truth) : truth[i] = 1 /\ truth[j] = 0 }
        won   == Cardinality({ q \in pairs : score[q[1]] > score[q[2]] })
        tied  == Cardinality({ q \in pairs : score[q[1]] = score[q[2]] })
    IN  Frac(2 * won + tied, 2 * Cardinality(pairs))

\* The distinct scores at or above which the k-th operating point of the
\* precision-recall curve predicts positive, from the highest down.
RECURSIVE Descending(_)
Descending(S) ==
    IF S = {} THEN << >>
    ELSE LET top == CHOOSE x \in S : \A y \in S : y <= x
         IN  << top >> \o Descending(S \ {top})

\* average_precision_score(y_true, y_score) for labels with a positive: the sum
\* over the operating points of (recall step) * precision.
RECURSIVE APSum(_, _, _, _)
APSum(truth, score, cuts, k) ==
    IF k > Len(cuts) THEN Frac(0, 1)
    ELSE LET tps(c)  == Cardinality({ i \in Rows(truth) : score[i] >= c /\ truth[i] = 1 })
             fps(c)  == Cardinality({ i \in Rows(truth) : score[i] >= c /\ truth[i] = 0 })
             before  == IF k = 1 THEN 0 ELSE tps(cuts[k - 1])
             term    == Frac((tps(cuts[k]) - before) * tps(cuts[k]),
                             true_sum(truth) * (tps(cuts[k]) + fps(cuts[k])))
         IN  FracAdd(term, APSum(truth, score, cuts, k + 1))

\* The values average_precision_score can return.  Without a positive label the
\* recall is 0/0: the library reports 0 (recall set to one everywhere) or NaN,
\* depending on its version.
average_precision_score(truth, score) ==
    IF true_sum(truth) = 0 THEN { Frac(0, 1), NaN }
    ELSE { APSum(truth, score, Descending(Range(score)), 1) }

\* len(np.unique(y_true))
n_unique(truth) == Cardinality(Range(truth))

(***************************************************************************)
(* metrics.py: compute_classification_metrics and operational_tradeoff     *)
(***************************************************************************)
\* compute_classification_metrics with roc_auc_score called whatever the
\* labels: the library refuses labels of a single class.
compute_classification_metrics_unguarded(truth, proba, thr, zd) ==
    IF Len(truth) = 0 \/ n_unique(truth) <= 1 THEN { [ raised |-> TRUE ] }
    ELSE LET pred == binarize(proba, thr)
         IN  { [ raised    |-> FALSE,
                 y_pred    |-> pred,
                 pr_auc    |-> ap,
                 roc_auc   |-> roc_auc_score(truth, proba),
                 precision |-> precision_score(truth, pred, zd),
                 recall    |-> recall_score(truth, pred, zd),
                 f1        |-> f1_score(truth, pred, zd) ] :
               ap \in average_precision_score(truth, proba) }

\* The outcomes of compute_classification_metrics: the HoldoutResults (with the
\* local y_pred beside them), or the error average_precision_score raises on
\* input without rows.
compute_classification_metrics(truth, proba, thr, zd) ==
    IF Len(truth) = 0 THEN { [ raised |-> TRUE ] }
    ELSE LET pred == binarize(proba, thr)
         IN  { [ raised    |-> FALSE,
                 y_pred    |-> pred,
                 pr_auc    |-> ap,
                 roc_auc   |-> IF n_unique(truth) > 1 THEN roc_auc_score(truth, proba)
                               ELSE NaN,
                 precision |-> precision_score(truth, pred, zd),
                 recall    |-> recall_score(truth, pred, zd),
                 f1        |-> f1_score(truth, pred, zd) ] :
               ap \in average_precision_score(truth, proba) }

\* operational_tradeoff with the false positives left out of the alerts.
operational_tradeoff_tp_only(truth, proba, thr) ==
    LET pred == binarize(proba, thr)
        cm   == confusion_matrix(truth, pred)
        alertas_totais == cm.tp
        total == Len(truth)
    IN  [ alertas_totais     |-> alertas_totais,
          pct_alertas        |-> IF total # 0 THEN Frac(alertas_totais, total) ELSE NaN,
          fraudes_capturadas |-> cm.tp,
          fraudes_perdidas   |-> cm.fn,
          precision          |-> precision_score(truth, pred, 0),
          recall             |-> recall_score(truth, pred, 0) ]

\* operational_tradeoff(y_true, y_proba, threshold)
operational_tradeoff(truth, proba, thr) ==
    LET pred == binarize(proba, thr)
        cm   == confusion_matrix(truth, pred)
        alertas_totais == cm.tp + cm.fp
        total == Len(truth)
    IN  [ alertas_totais     |-> alertas_totais,
          pct_alertas        |-> IF total # 0 THEN Frac(alertas_totais, total) ELSE NaN,
          fraudes_capturadas |-> cm.tp,
          fraudes_perdidas   |-> cm.fn,
          precision          |-> precision_score(truth, pred, 0),
          recall             |-> recall_score(truth, pred, 0) ]

(***************************************************************************)
(* The holdout metrics called on given inputs                              *)
(***************************************************************************)
MaxRows == 3

ProbaSample == { 20, 50, 80 }
ThresholdSample == { 50, 65 }
ZeroDivisionSample == { 0, 1 }

\* (y_true, y_proba) pairs of equal length, and the two documented examples.
HoldoutInputs ==
    UNION { [ 1..n -> {0, 1} ] \X [ 1..n -> ProbaSample ] : n \in 0..MaxRows }
    \cup { << <<0, 0, 1, 1>>, <<10, 40, 35, 80>> >>,
           << <<0, 1, 1, 0>>, <<20, 90, 30, 60>> >> }

InitMetrics ==
    /\ RegistryLoaded
    /\ \E input \in HoldoutInputs : y_true = input[1] /\ y_proba = input[2]
    /\ threshold \in ThresholdSample
    /\ zero_division \in ZeroDivisionSample
    /\ proba_by_model = << >>
    /\ cv_summary = [ kind |-> "none" ]
    /\ model_name = ""
    /\ metCall = [ op |-> "none" ]
    /\ PreprocessingIdle
    /\ ModelsIdle

ComputeClassificationMetrics ==
    /\ metCall.op = "none"
    /\ \E out \in compute_classification_metrics(y_true, y_proba, threshold, zero_division) :
          metCall' = [ op |-> "compute_classification_metrics", out |-> out ]
    /\ UNCHANGED << y_true, y_proba, threshold, zero_division, proba_by_model,
                    cv_summary, model_name >>

OperationalTradeoff ==
    /\ metCall.op = "none"
    /\ metCall' = [ op |-> "operational_tradeoff",
                    out |-> operational_tradeoff(y_true, y_proba, threshold) ]
    /\ UNCHANGED << y_true, y_proba, threshold, zero_division, proba_by_model,
                    cv_summary, model_name >>

NextMetrics ==
    \/ ComputeClassificationMetrics /\ UNCHANGED << regVars, preVars, modVars >>
    \/ OperationalTradeoff /\ UNCHANGED << regVars, preVars, modVars >>

SpecMetrics == InitMetrics /\ [][NextMetrics]_vars

(***************************************************************************)
(* Claims about the holdout metrics (checked under SpecMetrics)            *)
(***************************************************************************)
\* The confusion counts of the inputs, by the claims' rule: row i is predicted
\* positive exactly when y_proba[i] >= threshold.
Positive(i) == y_proba[i] >= threshold
TP == Cardinality({ i \in Rows(y_true) : y_true[i] = 1 /\ Positive(i) })
FP == Cardinality({ i \in Rows(y_true) : y_true[i] = 0 /\ Positive(i) })
FN == Cardinality({ i \in Rows(y_true) : y_true[i] = 1 /\ ~Positive(i) })

\* x is the number n/d when d is not zero, and otherwise the number instead.
IsRatio(x, n, d, instead) ==
    IF d # 0 THEN SameNumber(x, Frac(n, d)) ELSE SameNumber(x, Frac(instead, 1))

C3_OperationalTradeoff ==
    metCall.op = "operational_tradeoff" =>
        LET out == metCall.out
        IN  /\ out.alertas_totais = TP + FP
            /\ out.alertas_totais = Cardinality({ i \in Rows(y_proba) : Positive(i) })
            /\ out.fraudes_capturadas = TP
            /\ out.fraudes_perdidas = FN
            /\ IF Len(y_true) = 0 THEN IsNaN(out.pct_alertas)
               ELSE SameNumber(out.pct_alertas, Frac(out.alertas_totais, Len(y_true)))
            /\ (y_true = <<0, 1, 1, 0>> /\ y_proba = <<20, 90, 30, 60>> /\ threshold = 50) =>
                  /\ out.alertas_totais = 2
                  /\ SameNumber(out.pct_alertas, Frac(1, 2))
                  /\ out.fraudes_capturadas = 1
                  /\ out.fraudes_perdidas = 1

\* The documented example has been evaluated.
C3_Witness ==
    /\ metCall.op = "operational_tradeoff"
    /\ y_true = <<0, 1, 1, 0>>
    /\ y_proba = <<20, 90, 30, 60>>
    /\ threshold = 50
    /\ metCall.out.alertas_totais = 2

\* C8: on non-empty y_true the call does not fail; roc_auc is not-a-number
\* exactly when y_true holds a single class, and then pr_auc, precision, recall
\* and f1 follow the same rules as for labels of both classes.
C8_SingleClassRocAuc ==
    (metCall.op = "compute_classification_metrics" /\ Len(y_true) > 0) =>
        LET out == metCall.out
            single == (\A i \in Rows(y_true) : y_true[i] = 0) \/ (\A i \in Rows(y_true) : y_true[i] = 1)
        IN  /\ ~out.raised
            /\ IsNaN(out.roc_auc) <=> single
            /\ out.pr_auc \in average_precision_score(y_true, y_proba)
            /\ IsRatio(out.precision, TP, TP + FP, zero_division)
            /\ IsRatio(out.recall, TP, TP + FN, zero_division)
            /\ (2 * TP + FP + FN # 0) => SameNumber(out.f1, Frac(2 * TP, 2 * TP + FP + FN))

\* A call on labels that are all zero, some of them predicted positive.
C8_Witness ==
    /\ metCall.op = "compute_classification_metrics"
    /\ Len(y_true) > 1
    /\ \A i \in Rows(y_true) : y_true[i] = 0
    /\ FP > 0
    /\ ~metCall.out.raised
    /\ IsNaN(metCall.out.roc_auc)

(***************************************************************************)
(* metrics.py: tradeoff_table                                              *)
(***************************************************************************)
\* a may stand before b in a column sorted descending, not-a-number last.
MayPrecede(a, b) == IsNaN(b) \/ (~IsNaN(a) /\ a.n * b.d >= b.n * a.d)

Orderings(n) == { f \in [ 1..n -> 1..n ] : \A i, j \in 1..n : i # j => f[i] # f[j] }

\* df.sort_values(by="pct_alertas", ascending=False).reset_index(drop=True):
\* the orders the sort may leave the rows in (equal keys in either order).
sort_values_desc(rows) ==
    { [ k \in 1..Len(rows) |-> rows[f[k]] ] :
        f \in { g \in Orderings(Len(rows)) :
                  \A k \in 1..(Len(rows) - 1) :
                      MayPrecede(rows[g[k]].pct_alertas, rows[g[k + 1]].pct_alertas) } }

\* The row tradeoff_table builds for one item of the mapping.
TableRow(truth, item, thr) ==
    LET stats == operational_tradeoff(truth, item.y_proba, thr)
    IN  [ modelo             |-> item.modelo,
          alertas_totais     |-> stats.alertas_totais,
          pct_alertas        |-> stats.pct_alertas,
          fraudes_capturadas |-> stats.fraudes_capturadas,
          fraudes_perdidas   |-> stats.fraudes_perdidas,
          precision          |-> stats.precision,
          recall             |-> stats.recall ]

\* The outcomes of tradeoff_table.  pd.DataFrame([]) has no columns, so for an
\* empty mapping sort_values(by="pct_alertas") raises KeyError.
tradeoff_table(truth, items, thr) ==
    LET rows == [ k \in 1..Len(items) |-> TableRow(truth, items[k], thr) ]
    IN  IF Len(rows) = 0 THEN { [ raised |-> TRUE, error |-> "KeyError" ] }
        ELSE { [ raised |-> FALSE, rows |-> sorted_rows ] :
                 sorted_rows \in sort_values_desc(rows) }

MaxModels == 2
MaxTableRows == 2

ModelNames == { "Regressao Logistica", "Arvore de Decisao", "Random Forest" }

\* Mappings of at most MaxModels distinct model names to probabilities for n rows.
MappingInputs(n) ==
    UNION { { items \in [ 1..m -> [ modelo : ModelNames, y_proba : [ 1..n -> ProbaSample ] ] ] :
                \A i, j \in 1..m : i # j => items[i].modelo # items[j].modelo } :
            m \in 0..MaxModels }

InitTable ==
    /\ RegistryLoaded
    /\ \E n \in 0..MaxTableRows :
          /\ y_true \in [ 1..n -> {0, 1} ]
          /\ proba_by_model \in MappingInputs(n)
    /\ y_proba = << >>
    /\ threshold \in ThresholdSample
    /\ zero_division = 0
    /\ cv_summary = [ kind |-> "none" ]
    /\ model_name = ""
    /\ metCall = [ op |-> "none" ]
    /\ PreprocessingIdle
    /\ ModelsIdle

TradeoffTable ==
    /\ metCall.op = "none"
    /\ \E out \in tradeoff_table(y_true, proba_by_model, threshold) :
          metCall' = [ op |-> "tradeoff_table", out |-> out ]
    /\ UNCHANGED << y_true, y_proba, threshold, zero_division, proba_by_model,
                    cv_summary, model_name >>

NextTable == TradeoffTable /\ UNCHANGED << regVars, preVars, modVars >>

SpecTable == InitTable /\ [][NextTable]_vars

\* C4: for every mapping, tradeoff_table returns a table with exactly one row per
\* model name of the mapping, each the operational_tradeoff result of that model
\* (none dropped, none duplicated, ties included), ordered so that pct_alertas
\* never increases from one row to the next.
C4_TradeoffTableSortedPermutation ==
    metCall.op = "tradeoff_table" =>
        /\ ~metCall.out.raised
        /\ LET rows == metCall.out.rows
           IN  /\ Len(rows) = Len(proba_by_model)
               /\ \A k \in 1..Len(proba_by_model) :
                     Cardinality({ r \in 1..Len(rows) :
                                     rows[r] = TableRow(y_true, proba_by_model[k], threshold) }) = 1
               /\ \A r \in 1..(Len(rows) - 1) :
                     MayPrecede(rows[r].pct_alertas, rows[r + 1].pct_alertas)

(***************************************************************************)
(* metrics.py: consolidate_cv_results                                      *)
(*                                                                         *)
(* A Python number is [t |-> "int", v |-> ] or [t |-> "float", n |-> ,     *)
(* d |-> ].  A dict summary is its items in dict order, each stats value a *)
(* function from the keys present to numbers.  A table is its index, its   *)
(* column labels in order (labels may repeat) and its cells, cells[i][j]   *)
(* being row i of the j-th column.                                         *)
(***************************************************************************)
\* float(x)
float(x) == IF x.t = "int" THEN Frac(x.v, 1) ELSE Frac(x.n, x.d)

\* float(stats.get(key, np.nan))
stats_get(stats, key) == IF key \in DOMAIN stats THEN float(stats[key]) ELSE NaN

\* c.lower() for the column labels of the model.
lower(c) ==
    CASE c = "Mean" -> "mean"
      [] c = "STD"  -> "std"
      [] OTHER      -> c

\* {c.lower(): c for c in columns}.get(key): the last column whose lower-cased
\* label is key, or "None".
cols_get(columns, key) ==
    LET hits == { j \in 1..Len(columns) : lower(columns[j]) = key }
    IN  IF hits = {} THEN "None"
        ELSE columns[CHOOSE j \in hits : \A h \in hits : h <= j]

\* The positions df[[label]] selects: every column carrying the label, in order.
RECURSIVE PositionsFrom(_, _, _)
PositionsFrom(columns, label, j) ==
    IF j > Len(columns) THEN << >>
    ELSE (IF columns[j] = label THEN << j >> ELSE << >>) \o PositionsFrom(columns, label, j + 1)

Positions(columns, label) == PositionsFrom(columns, label, 1)

\* The dict branch: one row per item; pd.DataFrame([]) has no columns.
consolidate_dict(items, name) ==
    [ raised  |-> FALSE,
      columns |-> IF Len(items) = 0 THEN << >> ELSE << "modelo", "metrica", "mean", "std" >>,
      rows    |-> [ k \in 1..Len(items) |->
                      << name, items[k].metric,
                         stats_get(items[k].stats, "mean"),
                         stats_get(items[k].stats, "std") >> ] ]

\* The table branch, on the caller's table (a copy is what gets changed).
consolidate_frame(table, name) ==
    IF "metrica" \in Range(table.columns)
    THEN \* reset_index() cannot insert the index as "metrica": the label exists
         [ raised |-> TRUE, error |-> "ValueError",
           message |-> "cannot insert metrica, already exists" ]
    ELSE
    LET columns  == << "metrica" >> \o table.columns
        cell(i, j) == IF j = 1 THEN table.index[i] ELSE table.cells[i][j - 1]
        mean_col == cols_get(columns, "mean")
        std_col  == cols_get(columns, "std")
        picked   == Positions(columns, "metrica") \o Positions(columns, mean_col)
                       \o Positions(columns, std_col)
        renamed(c) == IF c = mean_col THEN "mean" ELSE IF c = std_col THEN "std" ELSE c
    IN  IF mean_col = "None" \/ std_col = "None"
        THEN [ raised |-> TRUE, error |-> "ValueError",
               message |-> "DataFrame de CV deve conter colunas 'mean' e 'std'." ]
        ELSE [ raised  |-> FALSE,
               columns |-> << "modelo" >> \o [ q \in 1..Len(picked) |-> renamed(columns[picked[q]]) ],
               rows    |-> [ i \in 1..Len(table.index) |->
                               << name >> \o [ q \in 1..Len(picked) |-> cell(i, picked[q]) ] ] ]

\* consolidate_cv_results(cv_summary, model_name)
consolidate_cv_results(summary, name) ==
    IF summary.kind = "dict" THEN consolidate_dict(summary.items, name)
    ELSE IF summary.kind = "DataFrame" THEN consolidate_frame(summary, name)
    ELSE [ raised |-> TRUE, error |-> "TypeError",
           message |-> "cv_summary deve ser dict ou pandas.DataFrame." ]

MaxMetrics == 2
MaxColumns == 3

MetricSample == << "pr_auc", "recall", "f1" >>
ColumnSample == { "mean", "Mean", "std", "STD", "metrica", "fold" }
NumberSample == { [ t |-> "float", n |-> 8, d |-> 10 ], [ t |-> "float", n |-> 2, d |-> 100 ],
                  [ t |-> "int", v |-> 1 ] }

\* The cell of row i in the j-th column of a modelled table.
CellValue(i, j) == Frac(10 * i + j, 100)

DictInputs ==
    UNION { { [ kind |-> "dict",
                items |-> [ k \in 1..m |-> [ metric |-> MetricSample[k], stats |-> st[k] ] ] ] :
              st \in [ 1..m -> UNION { [ keys -> NumberSample ] : keys \in SUBSET { "mean", "std" } } ] } :
            m \in 0..MaxMetrics }

FrameInputs ==
    UNION { { [ kind    |-> "DataFrame",
                index   |-> SubSeq(MetricSample, 1, m),
                columns |-> cols,
                cells   |-> [ i \in 1..m |-> [ j \in 1..Len(cols) |-> CellValue(i, j) ] ] ] :
              cols \in UNION { [ 1..c -> ColumnSample ] : c \in 0..MaxColumns } } :
            m \in 0..MaxMetrics }

CvInputs == DictInputs \cup FrameInputs \cup { [ kind |-> "list" ], [ kind |-> "NoneType" ] }

InitCv ==
    /\ RegistryLoaded
    /\ y_true = << >>
    /\ y_proba = << >>
    /\ threshold = 0
    /\ zero_division = 0
    /\ proba_by_model = << >>
    /\ cv_summary \in CvInputs
    /\ model_name \in { "ModelX", "Random Forest" }
    /\ metCall = [ op |-> "none" ]
    /\ PreprocessingIdle
    /\ ModelsIdle

ConsolidateCvResults ==
    /\ metCall.op = "none"
    /\ metCall' = [ op |-> "consolidate_cv_results",
                    out |-> consolidate_cv_results(cv_summary, model_name) ]
    /\ UNCHANGED << y_true, y_proba, threshold, zero_division, proba_by_model,
                    cv_summary, model_name >>

NextCv == ConsolidateCvResults /\ UNCHANGED << regVars, preVars, modVars >>

SpecCv == InitCv /\ [][NextCv]_vars

\* Some column of the table matches the key without regard to case.
HasColumn(table, key) == \E j \in 1..Len(table.columns) : lower(table.columns[j]) = key

\* C5: consolidate_cv_results has exactly four outcomes, decided by the shape of
\* its input: (1) a mapping metric -> {mean, std} yields one row (model_name,
\* metric, mean, std) per metric; (2) a table with columns matching "mean" and
\* "std" case-insensitively yields one row per index entry under the columns
\* (modelo, metrica, mean, std); (3) a table lacking a mean or a std column fails
\* with the shape error (a ValueError); (4) any other input fails with the type
\* error (a TypeError).
C5_ConsolidateFourOutcomes ==
    metCall.op = "consolidate_cv_results" =>
        LET out == metCall.out
        IN  /\ cv_summary.kind = "dict" =>
                  /\ ~out.raised
                  /\ Len(out.rows) = Len(cv_summary.items)
                  /\ \A k \in 1..Len(cv_summary.items) :
                        /\ out.rows[k][1] = model_name
                        /\ out.rows[k][2] = cv_summary.items[k].metric
                        /\ { "mean", "std" } \subseteq DOMAIN cv_summary.items[k].stats =>
                              /\ SameNumber(out.rows[k][3], float(cv_summary.items[k].stats["mean"]))
                              /\ SameNumber(out.rows[k][4], float(cv_summary.items[k].stats["std"]))
            /\ (cv_summary.kind = "DataFrame" /\ HasColumn(cv_summary, "mean")
                    /\ HasColumn(cv_summary, "std")) =>
                  /\ ~out.raised
                  /\ out.columns = << "modelo", "metrica", "mean", "std" >>
                  /\ Len(out.rows) = Len(cv_summary.index)
                  /\ \A i \in 1..Len(cv_summary.index) :
                        /\ out.rows[i][1] = model_name
                        /\ out.rows[i][2] = cv_summary.index[i]
            /\ (cv_summary.kind = "DataFrame" /\ ~(HasColumn(cv_summary, "mean")
                    /\ HasColumn(cv_summary, "std"))) =>
                  /\ out.raised
                  /\ out.error = "ValueError"
            /\ cv_summary.kind \notin { "dict", "DataFrame" } =>
                  /\ out.raised
                  /\ out.error = "TypeError"

(***************************************************************************)
(* preprocessing.py: build_preprocessor and the ColumnTransformer          *)
(*                                                                         *)
(* An optional list argument is [none |-> TRUE] (omitted, None) or         *)
(* [none |-> FALSE, list |-> ...].  An output column name is the sequence  *)
(* of the parts it is concatenated from: <<feature>> for a numeric column, *)
(* <<feature, "_", category>> for an indicator column.                     *)
(***************************************************************************)
None == [ none |-> TRUE ]
List(l) == [ none |-> FALSE, list |-> l ]

\* x or default: Python takes the default for every falsy x, None and the empty
\* list alike.
or_default(x, default) == IF ~x.none /\ Len(x.list) > 0 THEN x.list ELSE default

\* build_preprocessor(...): a new, unfit ColumnTransformer with the "num" branch
\* on numeric_features and the "cat" branch on categorical_features.
build_preprocessor(numeric_features, categorical_features, scale_numeric, ohe_sparse) ==
    [ built                |-> TRUE,
      numeric_features     |-> or_default(numeric_features, FEATURES_NUMERICAS),
      categorical_features |-> or_default(categorical_features, FEATURES_CATEGORICAS),
      numeric_steps        |-> IF scale_numeric THEN << "imputer", "scaler" >> ELSE << "imputer" >>,
      sparse_output        |-> ohe_sparse,
      fitted               |-> FALSE,
      all_missing          |-> {},
      categories           |-> << >> ]

\* ColumnTransformer.fit on a training table that holds every listed column:
\* the median imputer keeps no statistic for (and discards) a numeric column
\* without any observed value; the encoder learns each categorical column's
\* values in sorted order.
fit(ct, missing, values) ==
    [ ct EXCEPT !.fitted = TRUE,
                !.all_missing = missing,
                !.categories = [ k \in 1..Len(ct.categorical_features) |-> sorted(values[k]) ] ]

\* The indicator column names of the categorical features from the k-th on.
RECURSIVE EncoderNames(_, _)
EncoderNames(ct, k) ==
    IF k > Len(ct.categorical_features) THEN << >>
    ELSE [ i \in 1..Len(ct.categories[k]) |->
             << ct.categorical_features[k], "_", ct.categories[k][i] >> ]
         \o EncoderNames(ct, k + 1)

\* The column names the numeric branch puts out.
ImputerNames(ct) ==
    LET kept(f) == f \notin ct.all_missing
        names   == SelectSeq(ct.numeric_features, kept)
    IN  [ i \in 1..Len(names) |-> << names[i] >> ]

\* ColumnTransformer.get_feature_names_out() with the branches taken in the
\* other order.
get_feature_names_out_cat_first(ct) ==
    IF ~ct.fitted THEN [ raised |-> TRUE, error |-> "NotFittedError" ]
    ELSE [ raised |-> FALSE, names |-> EncoderNames(ct, 1) \o ImputerNames(ct) ]

\* ColumnTransformer.get_feature_names_out(), verbose_feature_names_out=False:
\* refuses an unfit transformer and names that are not unique.
get_feature_names_out(ct) ==
    IF ~ct.fitted THEN [ raised |-> TRUE, error |-> "NotFittedError" ]
    ELSE LET names == ImputerNames(ct) \o EncoderNames(ct, 1)
         IN  IF NoDuplicates(names) THEN [ raised |-> FALSE, names |-> names ]
             ELSE [ raised |-> TRUE, error |-> "ValueError" ]

\* get_feature_names_after_preprocessing(preprocessor) for a ColumnTransformer
\* (which has the get_feature_names_out attribute).
get_feature_names_after_preprocessing(ct) == get_feature_names_out(ct)

(***************************************************************************)
(* One preprocessor driven by a caller                                     *)
(***************************************************************************)
\* The lists a caller may pass: omitted, empty, or names in either order.
NumericArgs ==
    { None, List(<< >>), List(<< "hora_transacao" >>),
      List(<< "hora_transacao", "dia_semana" >>), List(<< "dia_semana", "hora_transacao" >>) }
CategoricalArgs ==
    { None, List(<< >>), List(<< "periodo_dia" >>),
      List(<< "periodo_dia", "temp_faixa" >>), List(<< "temp_faixa", "periodo_dia" >>) }

\* Numeric columns a training table may hold no observed value of, and the
\* values its categorical columns may hold.
EmptySample == { "dia_semana" }
CategorySample == { "baixa", "alta" }

InitPre ==
    /\ RegistryLoaded
    /\ MetricsIdle
    /\ PreprocessingIdle
    /\ ModelsIdle

BuildPreprocessor ==
    /\ ~preprocessor.built
    /\ \E numeric_features \in NumericArgs, categorical_features \in CategoricalArgs,
          scale_numeric \in BOOLEAN, ohe_sparse \in BOOLEAN :
          /\ preprocessor' = build_preprocessor(numeric_features, categorical_features,
                                                scale_numeric, ohe_sparse)
          /\ preCall' = [ op |-> "build_preprocessor",
                          numeric_features |-> numeric_features,
                          categorical_features |-> categorical_features ]

\* preprocessor.fit(X): the table keeps an observed value in at least one
\* numeric column and in every categorical column.
Fit ==
    /\ preprocessor.built
    /\ \E missing \in SUBSET (Range(preprocessor.numeric_features) \cap EmptySample),
          values \in [ 1..Len(preprocessor.categorical_features) -> (SUBSET CategorySample) \ {{}} ] :
          /\ Range(preprocessor.numeric_features) \ missing # {}
          /\ preprocessor' = fit(preprocessor, missing, values)
          /\ preCall' = [ op |-> "fit" ]

GetFeatureNamesAfterPreprocessing ==
    /\ preprocessor.built
    /\ preCall' = [ op |-> "get_feature_names_after_preprocessing",
                    pre |-> preprocessor,
                    out |-> get_feature_names_after_preprocessing(preprocessor) ]
    /\ UNCHANGED preprocessor

NextPre ==
    \/ BuildPreprocessor /\ UNCHANGED << regVars, metVars, modVars >>
    \/ Fit /\ UNCHANGED << regVars, metVars, modVars >>
    \/ GetFeatureNamesAfterPreprocessing /\ UNCHANGED << regVars, metVars, modVars >>

SpecPre == InitPre /\ [][NextPre]_vars

(***************************************************************************)
(* Claims about the preprocessing builder (checked under SpecPre)          *)
(***************************************************************************)
\* The position of feature f in the duplicate-free list l.
PositionIn(l, f) == CHOOSE k \in 1..Len(l) : l[k] = f

\* names lists every numeric feature of ct first, in list order, and then the
\* indicator columns of its categorical features, one per learned value,
\* grouped by source feature in list order.
NumericThenIndicators(ct, names) ==
    LET n   == Len(ct.numeric_features)
        cat == ct.categorical_features
    IN  /\ Len(names) >= n
        /\ \A i \in 1..n : names[i] = << ct.numeric_features[i] >>
        /\ \A i \in (n + 1)..Len(names) :
              /\ Len(names[i]) = 3
              /\ names[i][2] = "_"
              /\ \E k \in 1..Len(cat) :
                    names[i][1] = cat[k] /\ names[i][3] \in Range(ct.categories[k])
        /\ \A i, j \in (n + 1)..Len(names) :
              i < j => PositionIn(cat, names[i][1]) <= PositionIn(cat, names[j][1])
        /\ \A k \in 1..Len(cat) : \A c \in Range(ct.categories[k]) :
              Cardinality({ i \in (n + 1)..Len(names) : names[i] = << cat[k], "_", c >> }) = 1

\* The part of the lifecycle that holds as claimed: before any fit the call
\* fails with the not-fitted error, and it leaves the preprocessor as it was.
NamesCallLifecycle ==
    preCall.op = "get_feature_names_after_preprocessing" =>
        /\ preprocessor = preCall.pre
        /\ ~preCall.pre.fitted =>
              (preCall.out.raised /\ preCall.out.error = "NotFittedError")

SuppliedOrCanonical(arg, canonical) == IF arg.none THEN canonical ELSE arg.list

\* C10: build_preprocessor applies the numeric branch to exactly the numeric
\* list the caller supplied and the categorical branch to exactly the
\* categorical list supplied, whatever its length; a branch uses the registry's
\* canonical list only when its argument is omitted, each argument being
\* defaulted independently of the other.
C10_BranchesUseSuppliedLists ==
    preCall.op = "build_preprocessor" =>
        /\ preprocessor.numeric_features
              = SuppliedOrCanonical(preCall.numeric_features, FEATURES_NUMERICAS)
        /\ preprocessor.categorical_features
              = SuppliedOrCanonical(preCall.categorical_features, FEATURES_CATEGORICAS)

(***************************************************************************)
(* models.py: the model factory                                            *)
(*                                                                         *)
(* A Pipeline object is an entry of the sequence pipelines, and its        *)
(* position there is its identity.  The objects a build creates itself     *)
(* (the ColumnTransformer, its two branches, the estimator) belong to one  *)
(* pipeline and are fields of its record.  The column lists handed to the  *)
(* ColumnTransformer are the list objects models.py imported from          *)
(* features.py: the record holds a reference to them, by name, and the     *)
(* variable of that name holds their contents.                             *)
(***************************************************************************)
\* The contents of the list object a reference names.
ListAt(ref) ==
    IF ref = "FEATURES_NUMERICAS" THEN FEATURES_NUMERICAS ELSE FEATURES_CATEGORICAS

\* build_preprocessor(scale_numeric) of models.py: a new ColumnTransformer whose
\* "num" and "cat" branches select the imported list objects themselves.
models_build_preprocessor(scale_numeric) ==
    [ numeric_steps     |-> IF scale_numeric THEN << "imputer", "scaler" >> ELSE << "imputer" >>,
      categorical_steps |-> << "imputer", "encoder" >>,
      num_columns       |-> "FEATURES_NUMERICAS",
      cat_columns       |-> "FEATURES_CATEGORICAS",
      remainder         |-> "drop" ]

\* Pipeline(steps=[("preprocess", preprocessor), ("model", estimator)]), unfit.
Pipeline(preprocess, estimator) ==
    [ steps      |-> << "preprocess", "model" >>,
      preprocess |-> preprocess,
      model      |-> estimator,
      fitted     |-> FALSE ]

build_logistic_regression(random_state) ==
    Pipeline(models_build_preprocessor(TRUE),
             [ class        |-> "LogisticRegression",
               params       |-> << << "penalty", "l2" >>, << "C", "1.0" >>,
                                   << "class_weight", "balanced" >>, << "solver", "lbfgs" >>,
                                   << "max_iter", "2000" >> >>,
               random_state |-> random_state ])

build_decision_tree(random_state) ==
    Pipeline(models_build_preprocessor(FALSE),
             [ class        |-> "DecisionTreeClassifier",
               params       |-> << << "max_depth", "6" >>, << "min_samples_split", "100" >>,
                                   << "min_samples_leaf", "50" >> >>,
               random_state |-> random_state ])

build_random_forest(random_state) ==
    Pipeline(models_build_preprocessor(FALSE),
             [ class        |-> "RandomForestClassifier",
               params       |-> << << "n_estimators", "300" >>, << "max_depth", "None" >>,
                                   << "min_samples_split", "100" >>,
                                   << "min_samples_leaf", "50" >>, << "n_jobs", "-1" >> >>,
               random_state |-> random_state ])

\* get_models(random_state): the items of the returned dict, in insertion order.
get_models(random_state) ==
    << [ key |-> "Regressão Logística", value |-> build_logistic_regression(random_state) ],
       [ key |-> "Árvore de Decisão",   value |-> build_decision_tree(random_state) ],
       [ key |-> "Random Forest",       value |-> build_random_forest(random_state) ] >>

\* The columns the two branches of a pipeline's preprocessing stage select.
SelectedColumns(pipe) ==
    ListAt(pipe.preprocess.num_columns) \o ListAt(pipe.preprocess.cat_columns)

\* model.fit(X_train, y_train) on a table with the given columns and labels of
\* both classes: the preprocessing stage fails on a selected column the table
\* lacks, before the estimator is reached; otherwise the pipeline is fitted in
\* place.
pipeline_fit(pipe, columns) ==
    IF Range(SelectedColumns(pipe)) \subseteq columns
    THEN [ raised |-> FALSE, pipe |-> [ pipe EXCEPT !.fitted = TRUE ] ]
    ELSE [ raised |-> TRUE, error |-> "ValueError", pipe |-> pipe ]

(***************************************************************************)
(* The model factory driven by a caller                                    *)
(***************************************************************************)
MaxCalls == 2
MaxEdits == 1

RandomStateSample == { 0, 42 }

\* Training tables: the declared features, with a column besides, or lacking one.
TrainTables ==
    LET declared == Range(DeclaredCategoricas \o DeclaredNumericas)
    IN  { declared, declared \cup { "coluna_extra" }, declared \ { "hora_transacao" } }

\* What a caller reads through pipeline id: its steps, estimator and fitted
\* state, and the contents of the column lists its preprocessing stage selects.
Observed(id) ==
    [ pipe        |-> pipelines[id],
      num_columns |-> ListAt(pipelines[id].preprocess.num_columns),
      cat_columns |-> ListAt(pipelines[id].preprocess.cat_columns) ]

Snapshot == [ id \in 1..Len(pipelines) |-> Observed(id) ]

InitModels ==
    /\ RegistryLoaded
    /\ MetricsIdle
    /\ PreprocessingIdle
    /\ ModelsIdle

GetModels ==
    \E random_state \in RandomStateSample :
        LET items == get_models(random_state)
        IN  /\ Len(pipelines) < 3 * MaxCalls
            /\ pipelines' = pipelines \o [ k \in 1..Len(items) |-> items[k].value ]
            /\ modCall' = [ op |-> "get_models", random_state |-> random_state,
                            pre |-> Snapshot,
                            ret |-> [ k \in 1..Len(items) |->
                                        [ key |-> items[k].key, id |-> Len(pipelines) + k ] ] ]
            /\ UNCHANGED edits

\* fit_model(model, X_train, y_train) on a pipeline the caller holds.
FitModel ==
    \E id \in 1..Len(pipelines), columns \in TrainTables :
        LET out == pipeline_fit(pipelines[id], columns)
        IN  /\ pipelines' = [ pipelines EXCEPT ![id] = out.pipe ]
            /\ modCall' = [ op |-> "fit_model", model |-> id, pre |-> Snapshot,
                            raised |-> out.raised, ret |-> id ]
            /\ UNCHANGED edits

\* The caller modifies, in place, a column list it reads from a pipeline it
\* holds (the third item of a branch of the preprocessing stage's transformers).
CallerEditsColumns ==
    \E id \in 1..Len(pipelines), branch \in { "num", "cat" }, how \in { "coluna_extra", "pop" } :
        LET ref == IF branch = "num" THEN pipelines[id].preprocess.num_columns
                   ELSE pipelines[id].preprocess.cat_columns
        IN  /\ edits < MaxEdits
            /\ edits' = edits + 1
            /\ FEATURES_NUMERICAS' =
                  IF ref = "FEATURES_NUMERICAS" THEN Modified(FEATURES_NUMERICAS, how)
                  ELSE FEATURES_NUMERICAS
            /\ FEATURES_CATEGORICAS' =
                  IF ref = "FEATURES_CATEGORICAS" THEN Modified(FEATURES_CATEGORICAS, how)
                  ELSE FEATURES_CATEGORICAS
            /\ modCall' = [ op |-> "caller_edits_columns", model |-> id, pre |-> Snapshot ]
            /\ UNCHANGED pipelines

NextModels ==
    \/ GetModels /\ UNCHANGED << regVars, metVars, preVars >>
    \/ FitModel /\ UNCHANGED << regVars, metVars, preVars >>
    \/ CallerEditsColumns
          /\ UNCHANGED << COLUNAS_RASTREIO, alvoList, namesList, held, mutations, regCall,
                          metVars, preVars >>

SpecModels == InitModels /\ [][NextModels]_vars

\* The pipeline objects that existed before the latest operation other than
\* the one it was applied to (none, for get_models) are observed as before it.
OthersAsBefore(target) ==
    \A id \in 1..Len(modCall.pre) : id # target => Observed(id) = modCall.pre[id]

\* The entry of a get_models result is a new, unfit pipeline of the
\* preprocessing stage followed by one estimator of the given class carrying
\* the given random_state, with numeric scaling as stated.
NewUnfitPipeline(entry, class, scaled) ==
    LET pipe == pipelines[entry.id]
    IN  /\ entry.id \notin 1..Len(modCall.pre)
        /\ pipe.steps = << "preprocess", "model" >>
        /\ ~pipe.fitted
        /\ pipe.model.class = class
        /\ pipe.model.random_state = modCall.random_state
        /\ ("scaler" \in Range(pipe.preprocess.numeric_steps)) <=> scaled

\* C11: get_models(random_state) returns exactly three entries (logistic
\* regression, decision tree, random forest), each a newly built, unfit
\* pipeline of the preprocessing stage and one estimator carrying random_state,
\* with numeric scaling in the logistic-regression pipeline only; and pipelines
\* share no state: whatever is done to one pipeline (fit_model, which fits in
\* place and returns the same pipeline, or a change the caller makes through
\* it) leaves what is observed through every other pipeline, of the same call
\* or another, as it was, so that an unfit pipeline stays unfit.
C11_GetModelsIndependentPipelines ==
    /\ modCall.op = "get_models" =>
          /\ Len(modCall.ret) = 3
          /\ modCall.ret[1].key = "Regressão Logística"
          /\ modCall.ret[2].key = "Árvore de Decisão"
          /\ modCall.ret[3].key = "Random Forest"
          /\ NewUnfitPipeline(modCall.ret[1], "LogisticRegression", TRUE)
          /\ NewUnfitPipeline(modCall.ret[2], "DecisionTreeClassifier", FALSE)
          /\ NewUnfitPipeline(modCall.ret[3], "RandomForestClassifier", FALSE)
          /\ \A i, j \in 1..3 : i # j => modCall.ret[i].id # modCall.ret[j].id
          /\ OthersAsBefore(0)
    /\ modCall.op = "fit_model" =>
          /\ modCall.ret = modCall.model
          /\ ~modCall.raised => pipelines[modCall.model].fitted
          /\ OthersAsBefore(modCall.model)
    /\ modCall.op = "caller_edits_columns" => OthersAsBefore(modCall.model)

\* Two calls of get_models have been made, one pipeline of the first call has
\* been fitted and the caller has appended a column to the numeric list it read
\* from another: the pipelines of both calls, the fitted one included, now
\* select that column.
C11_Witness ==
    /\ Len(pipelines) = 6
    /\ modCall.op = "caller_edits_columns"
    /\ \E id \in 1..Len(pipelines) : id # modCall.model /\ pipelines[id].fitted
    /\ \E id \in 1..Len(pipelines) : id # modCall.model /\ ~pipelines[id].fitted
    /\ \A id \in 1..Len(pipelines) : "coluna_extra" \in Range(Observed(id).num_columns)

====
